---- MODULE Spec2Model ----
(***************************************************************************)
(* AudioLink FX Pro: the audio engine (AudioEngine) and the part of App    *)
(* that drives it.                                                         *)
(*                                                                         *)
(* The repository holds two versions of the engine class:                  *)
(*   "services"  src/services/audioEngine.ts                               *)
(*   "part001"   src/unnamed/part_001                                      *)
(* They differ in init (monitor gain, mainOutputGain), setOutputDevice,    *)
(* setMonitoringDevice and setMonitoringEnabled.  The variable `variant`   *)
(* is fixed by Init and selects which one a behaviour runs.                *)
(*                                                                         *)
(* Numbers (gains, times) are in tenths: 10 is 1.0.                        *)
(* An async function is cut at each await that suspends it; the code       *)
(* between two awaits is one atomic action (one event-loop turn).          *)
(***************************************************************************)
EXTENDS Integers, Sequences, FiniteSets, TLC

\* ---------------------------------------------------------------- bounds
\* handleStartEngine runs (clicks on "Initialize System")
MaxStarts == 2
\* user actions on the console after the engine started
MaxOps == 3
\* calls of one device setter that may be pending at the same time
MaxInFlight == 2

\* ------------------------------------------------------------- constants
Variants == {"services", "part001"}

InputIds  == <<"in1", "in2">>
OutputIds == <<"out1", "out2">>

\* DEFAULT_PARAMS
DEFAULT_PARAMS ==
  [inputGain |-> 10, masterGain |-> 10, reverbMix |-> 0, reverbDecay |-> 20,
   delayTime |-> 3, delayFeedback |-> 3, delayMix |-> 0,
   isMuted |-> FALSE, monitoringEnabled |-> FALSE]

\* The knobs of the console with the range each one is given (min, max);
\* a knob action delivers one of the two ends of the range.
KnobRange ==
  [inputGain     |-> <<0, 20>>,
   masterGain    |-> <<0, 20>>,
   delayTime     |-> <<0, 10>>,
   delayFeedback |-> <<0, 9>>,
   delayMix      |-> <<0, 10>>,
   reverbDecay   |-> <<1, 50>>,
   reverbMix     |-> <<0, 10>>]

KnobKeys == DOMAIN KnobRange

\* The six automatable controls of the main graph (AudioParams).
Controls ==
  {"inputGain", "masterGain", "reverbGain", "delayTime", "delayFeedback", "delayWetGain"}

\* AudioParam state before the graph exists (placeholder, no node).
NoControls == [c \in Controls |-> [value |-> 0, target |-> 0]]

\* GainNode.gain default value of the platform (1.0)
GainDefault == 10

\* ------------------------------------------------------------- variables
VARIABLES
  \* the platform
  variant,            \* which engine source the behaviour runs
  ctxSinkSupported,   \* 'setSinkId' in AudioContext
  elemSinkSupported,  \* 'setSinkId' in HTMLAudioElement
  \* App state (useState)
  engineStarted, errorMsg, inputs, outputs,
  selectedInput, selectedOutput, selectedMonitor,
  cbMonitor,          \* selectedMonitor as closed over by the memoized refreshDevices
  params,
  start,              \* the handleStartEngine runs
  nOps,               \* user actions made on the console
  \* AudioEngine fields
  isInitialized,
  context,            \* "none" (null) | "suspended" | "running"
  monitorContext,
  ctl,                \* value and target of each control of the main graph
  edges,              \* connections between audio nodes
  outputMuted,        \* outputAudioElement.muted
  outputSinkId,       \* outputAudioElement.sinkId
  contextSinkId,      \* context.sinkId
  monitor,            \* monitor path: flags, monitorGain, monitorAudioElement
  inputStream,        \* 0 (null) or the stream of the k-th setInputDevice call
  sourceNode,         \* 0 (null) or the source node made for stream k
  live,               \* streams obtained by setInputDevice whose tracks run
  connected,          \* source nodes connected to inputGain
  nIn,                \* setInputDevice calls made so far
  inCalls, outCalls, monCalls,   \* pending calls of the three device setters
  permLive,           \* runs whose permission stream is open
  applied,            \* history: last snapshot given to updateParameters on a context
  tones,              \* the oscillator of each playTestTone call: "playing" | "ended" | "released"
  bins,               \* getByteFrequencyData of the two analysers
  levels,             \* App state `levels`, each a fraction num / den
  called              \* history: the engine method called last by a direct caller

platformVars == <<variant, ctxSinkSupported, elemSinkSupported>>
appVars   == <<engineStarted, errorMsg, inputs, outputs, selectedInput,
               selectedOutput, selectedMonitor, cbMonitor, params, start, nOps>>
graphVars == <<isInitialized, context, monitorContext, ctl, edges>>
outVars   == <<outputMuted, outputSinkId, contextSinkId, outCalls>>
monVars   == <<monitor, monCalls>>
inVars    == <<inputStream, sourceNode, live, connected, nIn, inCalls>>
meterVars == <<bins, levels>>
vars == <<platformVars, appVars, graphVars, outVars, monVars, inVars, permLive, applied,
          tones, meterVars, called>>

Runs == 1..MaxStarts

\* Direct calls of engine methods in a behaviour.
MaxCalls == 4

\* Bins of an analyser in the model (frequencyBinCount).
BinCount == 2

\* The bytes a bin takes in the model: the two ends of the range of a
\* Uint8Array element and the value getLevels scales by.
Bytes == {0, 128, 255}

\* Bin contents of an analyser.
BinContents == [1..BinCount -> Bytes]

\* Both analysers before any signal.
Silence == [input |-> [i \in 1..BinCount |-> 0], output |-> [i \in 1..BinCount |-> 0]]

\* useState({ input: 0, output: 0 })
NoLevels == [input |-> [num |-> 0, den |-> 1], output |-> [num |-> 0, den |-> 1]]

\* ---------------------------------------------------------- constructor
\* new AudioEngine(): two detached audio elements, no graph.
NewMonitor(v) ==
  [isMonitoringViaContext |-> TRUE,
   monitoringEnabled |-> FALSE,
   muted |-> (v = "part001"),
   elemSinkId |-> "",
   ctxSinkId |-> "",
   gain |-> [value |-> 0, target |-> 0]]

IdleRun == [pc |-> "idle", params |-> DEFAULT_PARAMS, selIn |-> "", selOut |-> "",
            selMon |-> "", steps |-> <<>>]

\* ------------------------------------------------ persisted parameters
\* The fields of a snapshot that hold a boolean; the others hold a number.
BoolKeys == {"isMuted", "monitoringEnabled"}

\* JSON.stringify of one field and JSON.parse of it: a JSON number or a JSON
\* boolean, written as a tagged value.
ToJson(k, v) == IF k \in BoolKeys THEN [t |-> "bool", v |-> v] ELSE [t |-> "num", v |-> v]
FromJson(j) == j.v

\* JSON.stringify(params): the stored item.
Stringify(P) ==
  [kind |-> "object", fields |-> [k \in DOMAIN P |-> ToJson(k, P[k])]]

\* What localStorage can hold under the parameter key: nothing, text that
\* does not parse, or an object with some fields.  The stored JSON is taken
\* as it is parsed: its fields are not checked against the ranges of the
\* knobs.
PersistedItem(i) ==
  CASE i = 1 -> [kind |-> "absent"]
    [] i = 2 -> [kind |-> "object",
                 fields |-> [isMuted |-> ToJson("isMuted", TRUE),
                             masterGain |-> ToJson("masterGain", 20)]]
    [] i = 3 -> [kind |-> "object",
                 fields |-> [monitoringEnabled |-> ToJson("monitoringEnabled", TRUE),
                             reverbMix |-> ToJson("reverbMix", 10)]]
    [] i = 4 -> [kind |-> "object",
                 fields |-> [delayFeedback |-> ToJson("delayFeedback", 10)]]
    [] i = 5 -> [kind |-> "garbage"]
    [] i = 6 -> Stringify(DEFAULT_PARAMS)
    [] i = 7 -> [kind |-> "object",
                 fields |-> [inputGain |-> ToJson("inputGain", 20),
                             pan |-> ToJson("pan", 5)]]

PersistedItems == 1..7

\* { ...over, ...obj } read the other way round: the defaults win.
MergeDefaultsLast(base, over) ==
  [k \in (DOMAIN base) \cup (DOMAIN over) |->
     IF k \in DOMAIN base THEN base[k] ELSE over[k]]

\* { ...base, ...over }: every key of either object, the value of `over`
\* where it has the key.
Merge(base, over) ==
  [k \in (DOMAIN base) \cup (DOMAIN over) |->
     IF k \in DOMAIN over THEN over[k] ELSE base[k]]

\* The initial value of the params state: the stored item parsed and merged
\* over the defaults, or the defaults when nothing is stored or the text
\* does not parse.
Load(item) ==
  IF item.kind = "object"
    THEN Merge(DEFAULT_PARAMS, [k \in DOMAIN item.fields |-> FromJson(item.fields[k])])
    ELSE DEFAULT_PARAMS

\* Snapshots App can load at startup: the defaults, or a persisted snapshot
\* merged over them.
LoadableParams == {Load(PersistedItem(i)) : i \in 1..6}

\* Device selections App can restore at startup ('' when nothing is stored).
RestoredInputs  == {"", InputIds[2]}
RestoredOutputs == {"", OutputIds[2]}

Init ==
  /\ variant \in Variants
  /\ ctxSinkSupported \in BOOLEAN
  /\ elemSinkSupported \in BOOLEAN
  /\ engineStarted = FALSE
  /\ errorMsg = "null"
  /\ inputs = <<>>
  /\ outputs = <<>>
  /\ selectedInput \in RestoredInputs
  /\ selectedOutput \in RestoredOutputs
  /\ selectedMonitor \in RestoredOutputs
  /\ cbMonitor = selectedMonitor
  /\ params \in LoadableParams
  /\ start = [r \in Runs |-> IdleRun]
  /\ nOps = 0
  /\ isInitialized = FALSE
  /\ context = "none"
  /\ monitorContext = "none"
  /\ ctl = NoControls
  /\ edges = {}
  /\ outputMuted = FALSE
  /\ outputSinkId = ""
  /\ contextSinkId = ""
  /\ monitor = NewMonitor(variant)
  /\ inputStream = 0
  /\ sourceNode = 0
  /\ live = {}
  /\ connected = {}
  /\ nIn = 0
  /\ inCalls = <<>>
  /\ outCalls = <<>>
  /\ monCalls = <<>>
  /\ permLive = {}
  /\ applied = <<>>
  /\ tones = <<>>
  /\ bins = Silence
  /\ levels = NoLevels
  /\ called = "none"

\* ------------------------------------------------------ AudioEngine.init
\* The connections init() makes, in both sources.  A MediaStream handed from
\* destinationNode to a consumer is written as an edge too.
CommonWiring ==
  {<<"monitorGain", "monitorDestination">>,
   <<"destinationNode", "monitorSourceNode">>,
   <<"monitorSourceNode", "monitorGain">>,
   <<"inputGain", "inputAnalyzer">>,
   <<"inputGain", "masterGain">>,
   <<"inputGain", "convolver">>,
   <<"convolver", "reverbGain">>,
   <<"reverbGain", "masterGain">>,
   <<"inputGain", "delayNode">>,
   <<"delayNode", "delayFeedback">>,
   <<"delayFeedback", "delayNode">>,
   <<"delayNode", "delayWetGain">>,
   <<"delayWetGain", "masterGain">>,
   <<"masterGain", "outputAnalyzer">>,
   <<"outputAnalyzer", "destinationNode">>,
   <<"destinationNode", "outputAudioElement">>,
   <<"destinationNode", "monitorAudioElement">>}

\* The low-latency path as init() leaves it.
DirectWiring(v) ==
  IF v = "services"
    THEN {<<"outputAnalyzer", "destination">>}
    ELSE {<<"outputAnalyzer", "mainOutputGain">>}

\* monitorGain as created by init(): part_001 sets gain.value = 0, the
\* services source leaves the node at the platform default.
InitMonitorGain(v) ==
  IF v = "part001"
    THEN [value |-> 0, target |-> 0]
    ELSE [value |-> GainDefault, target |-> GainDefault]

\* The points at which init() can end: "ok", or a throw by one of the two
\* AudioContext constructors.
InitOutcomes == {"ok", "failMain", "failMonitor"}

\* init() without its isInitialized guard: every call builds the graph anew.
initRebuilding(outcome) ==
  IF outcome = "failMain"
    THEN UNCHANGED <<graphVars, outputMuted, monitor>>
    ELSE
      /\ context' = "suspended"
      /\ ctl' = NoControls
      /\ IF outcome = "failMonitor"
           THEN /\ edges' = {}
                /\ UNCHANGED <<isInitialized, monitorContext, outputMuted, monitor>>
           ELSE /\ monitorContext' = "suspended"
                /\ monitor' = [monitor EXCEPT !.gain = InitMonitorGain(variant)]
                /\ edges' = CommonWiring \cup DirectWiring(variant)
                /\ outputMuted' = TRUE
                /\ isInitialized' = TRUE

\* init(): a no-op once isInitialized; otherwise runs to `outcome`.
init(outcome) ==
  IF isInitialized \/ outcome = "failMain"
    THEN UNCHANGED <<graphVars, outputMuted, monitor>>
    ELSE
      /\ context' = "suspended"
      /\ ctl' = NoControls
      /\ IF outcome = "failMonitor"
           THEN /\ edges' = {}
                /\ UNCHANGED <<isInitialized, monitorContext, outputMuted, monitor>>
           ELSE /\ monitorContext' = "suspended"
                /\ monitor' = [monitor EXCEPT !.gain = InitMonitorGain(variant)]
                /\ edges' = CommonWiring \cup DirectWiring(variant)
                /\ outputMuted' = TRUE
                /\ isInitialized' = TRUE

\* Whether a call of init() in the current state returns normally.
InitReturns(outcome) == isInitialized \/ outcome = "ok"

\* ------------------------------------------ AudioEngine.updateParameters
\* The targets with the mute flag left out of the master gain.
TargetsIgnoringMute(P) ==
  [inputGain     |-> P.inputGain,
   masterGain    |-> P.masterGain,
   reverbGain    |-> P.reverbMix,
   delayTime     |-> P.delayTime,
   delayFeedback |-> P.delayFeedback,
   delayWetGain  |-> P.delayMix]

\* The targets with the reverb level following the decay setting as well.
TargetsWithDecay(P) ==
  [inputGain     |-> P.inputGain,
   masterGain    |-> IF P.isMuted THEN 0 ELSE P.masterGain,
   reverbGain    |-> P.reverbMix + P.reverbDecay,
   delayTime     |-> P.delayTime,
   delayFeedback |-> P.delayFeedback,
   delayWetGain  |-> P.delayMix]

\* The target updateParameters gives each control for snapshot P.
Targets(P) ==
  [inputGain     |-> P.inputGain,
   masterGain    |-> IF P.isMuted THEN 0 ELSE P.masterGain,
   reverbGain    |-> P.reverbMix,
   delayTime     |-> P.delayTime,
   delayFeedback |-> P.delayFeedback,
   delayWetGain  |-> P.delayMix]

\* The controls with each target moved by the snapshot's value, not set to it.
WithTargetsAdded(C, P) ==
  [c \in Controls |-> [C[c] EXCEPT !.target = @ + Targets(P)[c]]]

\* The controls C after setTargetAtTime on every one of them for snapshot P:
\* the target is replaced, the value is left to glide.
WithTargets(C, P) ==
  [c \in Controls |-> [C[c] EXCEPT !.target = Targets(P)[c]]]

\* updateParameters(P): a no-op without a context.
updateParameters(P) ==
  IF context = "none"
    THEN UNCHANGED <<ctl, applied>>
    ELSE /\ ctl' = WithTargets(ctl, P)
         /\ applied' = <<P>>

\* ---------------------------------------------------- AudioEngine.resume
\* resume() once its awaits are through: both contexts leave "suspended".
Resumed(c) == IF c = "suspended" THEN "running" ELSE c

resume ==
  /\ context' = Resumed(context)
  /\ monitorContext' = Resumed(monitorContext)

\* Sequence s without its i-th element.
RemoveAt(s, i) == SubSeq(s, 1, i - 1) \o SubSeq(s, i + 1, Len(s))

\* -------------------------------------------- AudioEngine.setInputDevice
\* App calls setInputDevice only once engineStarted, when the context
\* exists, so the `await this.init()` branch is not taken.
\* Up to the await of getUserMedia: the old source node is disconnected and
\* the old stream's tracks stopped; the request for `dev` is then pending.
setInputDevice(dev) ==
  /\ connected' = connected \ {sourceNode}
  /\ live' = live \ {inputStream}
  /\ nIn' = nIn + 1
  /\ inCalls' = Append(inCalls, [dev |-> dev, id |-> nIn + 1, pc |-> "gum"])
  /\ UNCHANGED <<inputStream, sourceNode>>

\* getUserMedia resolved for pending call i: the new stream is stored, a
\* source node made for it and connected to inputGain; resume() is awaited.
setInputDeviceGranted(i) ==
  LET k == inCalls[i].id IN
  /\ inputStream' = k
  /\ live' = live \cup {k}
  /\ sourceNode' = k
  /\ connected' = connected \cup {k}
  /\ inCalls' = [inCalls EXCEPT ![i].pc = "resume"]
  /\ UNCHANGED nIn

\* ------------------------------------------- AudioEngine.setOutputDevice
Outgoing(E, n) == {e \in E : e[1] = n}

\* The direct edge as setOutputDevice re-makes it after a context retarget
\* (part_001 only; the services source never touches the graph here).
ConnectDirect(E) ==
  IF variant = "part001"
    THEN (E \ Outgoing(E, "mainOutputGain")) \cup {<<"mainOutputGain", "destination">>}
    ELSE E

\* The direct edge as the legacy fallback leaves it.
DisconnectDirect(E) ==
  IF variant = "part001" THEN E \ Outgoing(E, "mainOutputGain") ELSE E

\* The legacy element engaged whatever the context supports.
setOutputDeviceLegacyFirst(id) ==
  IF context = "none"
    THEN UNCHANGED <<edges, outVars>>
    ELSE /\ edges' = DisconnectDirect(edges)
         /\ outputMuted' = FALSE
         /\ outCalls' = IF elemSinkSupported
                          THEN Append(outCalls, [id |-> id, pc |-> "elemSink", mech |-> "legacy"])
                          ELSE outCalls
         /\ UNCHANGED <<outputSinkId, contextSinkId>>

\* Up to the first await (or the return).
setOutputDevice(id) ==
  IF context = "none"
    THEN UNCHANGED <<edges, outVars>>
    ELSE IF ctxSinkSupported
      THEN /\ outCalls' = Append(outCalls, [id |-> id, pc |-> "ctxSink", mech |-> "direct"])
           /\ UNCHANGED <<edges, outputMuted, outputSinkId, contextSinkId>>
      ELSE /\ edges' = DisconnectDirect(edges)
           /\ outputMuted' = FALSE
           /\ outCalls' = IF elemSinkSupported
                            THEN Append(outCalls, [id |-> id, pc |-> "elemSink", mech |-> "legacy"])
                            ELSE outCalls
           /\ UNCHANGED <<outputSinkId, contextSinkId>>

\* context.setSinkId(id) resolved for pending call i.
setOutputDeviceRetargeted(i) ==
  /\ contextSinkId' = outCalls[i].id
  /\ edges' = ConnectDirect(edges)
  /\ outputMuted' = TRUE
  /\ outCalls' = RemoveAt(outCalls, i)
  /\ UNCHANGED outputSinkId

\* ------------------------------------- AudioEngine.setMonitoringEnabled
\* The monitor record after setMonitoringEnabled(enabled); hasGain says
\* whether monitorGain exists.
setMonitoringEnabled(m, enabled, hasGain) ==
  IF variant = "part001"
    THEN [m EXCEPT
            !.monitoringEnabled = enabled,
            !.gain.target = IF hasGain
                              THEN (IF enabled /\ m.isMonitoringViaContext THEN 10 ELSE 0)
                              ELSE @,
            !.muted = (~enabled) \/ m.isMonitoringViaContext]
    ELSE [m EXCEPT
            !.gain.target = IF hasGain THEN (IF enabled THEN 10 ELSE 0) ELSE @,
            !.muted = ~enabled]

\* --------------------------------------- AudioEngine.setMonitoringDevice
\* Up to the first await (or the return): the monitor record and the
\* pending calls it leaves.
setMonitoringDevice(m, calls, id) ==
  IF monitorContext = "none"
    THEN [m |-> m, calls |-> calls]
    ELSE IF ctxSinkSupported
      THEN [m |-> m, calls |-> Append(calls, [id |-> id, pc |-> "ctxSink", mech |-> "direct"])]
      ELSE IF variant = "part001"
        THEN LET m1 == [m EXCEPT !.isMonitoringViaContext = FALSE] IN
             IF elemSinkSupported
               THEN [m |-> m1, calls |-> Append(calls, [id |-> id, pc |-> "elemSink", mech |-> "legacy"])]
               ELSE [m |-> setMonitoringEnabled(m1, m1.monitoringEnabled, TRUE),
                     calls |-> calls]
        ELSE LET m1 == [m EXCEPT !.muted = FALSE] IN
             [m |-> m1,
              calls |-> IF elemSinkSupported
                          THEN Append(calls, [id |-> id, pc |-> "elemSink", mech |-> "legacy"])
                          ELSE calls]

\* monitorContext.setSinkId(id) resolved: the rest of the try block.
setMonitoringDeviceRetargeted(m, id) ==
  IF variant = "part001"
    THEN LET m1 == [m EXCEPT !.ctxSinkId = id,
                             !.isMonitoringViaContext = TRUE,
                             !.muted = TRUE]
         IN setMonitoringEnabled(m1, m1.monitoringEnabled, TRUE)
    ELSE [m EXCEPT !.ctxSinkId = id, !.muted = TRUE]

\* monitorAudioElement.setSinkId(id) resolved: the rest of the try block.
setMonitoringDeviceLegacySet(m, id) ==
  IF variant = "part001"
    THEN LET m1 == [m EXCEPT !.elemSinkId = id]
         IN setMonitoringEnabled(m1, m1.monitoringEnabled, TRUE)
    ELSE [m EXCEPT !.elemSinkId = id]

\* ------------------------------------------------------- App: the effects
\* The four useEffect hooks that drive the engine (selectedInput,
\* selectedOutput, selectedMonitor, params.monitoringEnabled), run in their
\* order of declaration after a render in which engineStarted or their own
\* dependency changed.  `was` is engineStarted before the render.
Effects(was, now, newIn, newOut, newMon, newEn) ==
  LET inFires  == now /\ newIn # ""  /\ (~was \/ newIn # selectedInput)
      outFires == now /\ newOut # "" /\ (~was \/ newOut # selectedOutput)
      monFires == now /\ newMon # "" /\ (~was \/ newMon # selectedMonitor)
      enFires  == now /\ (~was \/ newEn # params.monitoringEnabled)
      r1 == IF monFires
              THEN setMonitoringDevice(monitor, monCalls, newMon)
              ELSE [m |-> monitor, calls |-> monCalls]
      m2 == IF enFires
              THEN setMonitoringEnabled(r1.m, newEn, monitorContext # "none")
              ELSE r1.m
  IN
  /\ inFires  => Len(inCalls) < MaxInFlight
  /\ outFires => Len(outCalls) < MaxInFlight
  /\ monFires => Len(monCalls) < MaxInFlight
  /\ IF inFires THEN setInputDevice(newIn) ELSE UNCHANGED inVars
  /\ IF outFires THEN setOutputDevice(newOut) ELSE UNCHANGED <<edges, outVars>>
  /\ monitor' = m2
  /\ monCalls' = r1.calls

\* ------------------------------------------------ App.handleStartEngine
\* The button is rendered while engineStarted is false.  The handler closes
\* over the params and selections of the render it was made in.
ClickStart(r) ==
  /\ ~engineStarted
  /\ start[r].pc = "idle"
  /\ r > 1 => start[r - 1].pc # "idle"
  /\ start' = [start EXCEPT ![r] =
       [pc |-> "perm", params |-> params, selIn |-> selectedInput,
        selOut |-> selectedOutput, selMon |-> cbMonitor, steps |-> <<>>]]
  /\ UNCHANGED <<platformVars, tones, meterVars, called, engineStarted, errorMsg, inputs, outputs, selectedInput,
                 selectedOutput, selectedMonitor, cbMonitor, params, nOps,
                 graphVars, outVars, monVars, inVars, permLive, applied>>

\* getUserMedia resolved: a capture stream is open; init() is called and awaited.
PermissionGranted(r) ==
  /\ start[r].pc = "perm"
  /\ permLive' = permLive \cup {r}
  /\ \E outcome \in (IF isInitialized THEN {"ok"} ELSE InitOutcomes) :
       /\ init(outcome)
       /\ start' = [start EXCEPT
            ![r].pc = IF InitReturns(outcome) THEN "init" ELSE "initThrew",
            ![r].steps = IF InitReturns(outcome) THEN <<"perm", "init">> ELSE <<"perm">>]
  /\ UNCHANGED <<platformVars, tones, meterVars, called, engineStarted, errorMsg, inputs, outputs, selectedInput,
                 selectedOutput, selectedMonitor, cbMonitor, params, nOps,
                 outputSinkId, contextSinkId, outCalls, monCalls, inVars, applied>>

\* getUserMedia rejected and the run ending with nothing recorded.
PermissionDeniedSilently(r) ==
  /\ start[r].pc = "perm"
  /\ start' = [start EXCEPT ![r].pc = "denied"]
  /\ UNCHANGED <<platformVars, tones, meterVars, called, engineStarted, errorMsg, inputs, outputs, selectedInput,
                 selectedOutput, selectedMonitor, cbMonitor, params, nOps,
                 graphVars, outVars, monVars, inVars, permLive, applied>>

\* getUserMedia rejected: the catch block.
PermissionDenied(r) ==
  /\ start[r].pc = "perm"
  /\ start' = [start EXCEPT ![r].pc = "denied"]
  /\ errorMsg' = "permission"
  /\ UNCHANGED <<platformVars, tones, meterVars, called, engineStarted, inputs, outputs, selectedInput,
                 selectedOutput, selectedMonitor, cbMonitor, params, nOps,
                 graphVars, outVars, monVars, inVars, permLive, applied>>

\* init() threw: the same catch block.
InitThrew(r) ==
  /\ start[r].pc = "initThrew"
  /\ start' = [start EXCEPT ![r].pc = "failed"]
  /\ errorMsg' = "permission"
  /\ UNCHANGED <<platformVars, tones, meterVars, called, engineStarted, inputs, outputs, selectedInput,
                 selectedOutput, selectedMonitor, cbMonitor, params, nOps,
                 graphVars, outVars, monVars, inVars, permLive, applied>>

\* The start sequence going on to the device refresh and resume() with the
\* parameter snapshot never handed to the engine.
StartApplyWithoutParameters(r) ==
  /\ start[r].pc = "init"
  /\ start' = [start EXCEPT ![r].pc = "enum", ![r].steps = Append(@, "params")]
  /\ UNCHANGED <<platformVars, tones, meterVars, called, engineStarted, errorMsg, inputs, outputs, selectedInput,
                 selectedOutput, selectedMonitor, cbMonitor, params, nOps,
                 isInitialized, context, monitorContext, edges, ctl, applied,
                 outVars, monVars, inVars, permLive>>

\* init() returned: updateParameters(params), then refreshDevices() up to
\* its await of enumerateDevices.
StartApply(r) ==
  /\ start[r].pc = "init"
  /\ updateParameters(start[r].params)
  /\ start' = [start EXCEPT ![r].pc = "enum", ![r].steps = Append(@, "params")]
  /\ UNCHANGED <<platformVars, tones, meterVars, called, engineStarted, errorMsg, inputs, outputs, selectedInput,
                 selectedOutput, selectedMonitor, cbMonitor, params, nOps,
                 isInitialized, context, monitorContext, edges,
                 outVars, monVars, inVars, permLive>>

\* What enumerateDevices can deliver.
DeviceLists == {<<>>, InputIds} \X {<<>>, OutputIds}

\* refreshDevices auto-selecting the input and the main output only.
refreshDevicesWithoutMonitor(r, ins, outs) ==
  LET run == start[r]
      newIn  == IF Len(ins) > 0 /\ run.selIn = "" THEN ins[1] ELSE selectedInput
      newOut == IF Len(outs) > 0 /\ run.selOut = "" THEN outs[1] ELSE selectedOutput
  IN
  /\ inputs' = ins
  /\ outputs' = outs
  /\ selectedInput' = newIn
  /\ selectedOutput' = newOut
  /\ selectedMonitor' = selectedMonitor
  /\ cbMonitor' = IF newIn # selectedInput \/ newOut # selectedOutput
                    THEN selectedMonitor ELSE cbMonitor
  /\ Effects(engineStarted, engineStarted, newIn, newOut, selectedMonitor,
             params.monitoringEnabled)

\* refreshDevices after enumerateDevices resolved with (ins, outs): the lists
\* are stored and a role whose selection the closure saw empty takes the
\* first entry; then handleStartEngine calls resume().
refreshDevices(r, ins, outs) ==
  LET run == start[r]
      newIn  == IF Len(ins) > 0 /\ run.selIn = "" THEN ins[1] ELSE selectedInput
      newOut == IF Len(outs) > 0 /\ run.selOut = "" THEN outs[1] ELSE selectedOutput
      newMon == IF Len(outs) > 0 /\ run.selMon = "" THEN outs[1] ELSE selectedMonitor
  IN
  /\ inputs' = ins
  /\ outputs' = outs
  /\ selectedInput' = newIn
  /\ selectedOutput' = newOut
  /\ selectedMonitor' = newMon
  /\ cbMonitor' = IF newIn # selectedInput \/ newOut # selectedOutput THEN newMon ELSE cbMonitor
  /\ Effects(engineStarted, engineStarted, newIn, newOut, newMon, params.monitoringEnabled)

DevicesEnumerated(r) ==
  /\ start[r].pc = "enum"
  /\ \E dl \in DeviceLists : refreshDevices(r, dl[1], dl[2])
  /\ start' = [start EXCEPT ![r].pc = "resume", ![r].steps = Append(@, "refresh")]
  /\ UNCHANGED <<platformVars, tones, meterVars, called, engineStarted, errorMsg, params, nOps,
                 isInitialized, context, monitorContext, ctl, permLive, applied>>

\* enumerateDevices resolved while the second input device is unplugged.
DevicesEnumeratedUnplugged(r) ==
  /\ start[r].pc = "enum"
  /\ \E outs \in {<<>>, OutputIds} : refreshDevices(r, <<InputIds[1]>>, outs)
  /\ start' = [start EXCEPT ![r].pc = "resume", ![r].steps = Append(@, "refresh")]
  /\ UNCHANGED <<platformVars, tones, meterVars, called, engineStarted, errorMsg, params, nOps,
                 isInitialized, context, monitorContext, ctl, permLive, applied>>

\* enumerateDevices rejected: caught inside refreshDevices.
EnumerationFailed(r) ==
  /\ start[r].pc = "enum"
  /\ start' = [start EXCEPT ![r].pc = "resume", ![r].steps = Append(@, "refresh")]
  /\ UNCHANGED <<platformVars, tones, meterVars, called, engineStarted, errorMsg, inputs, outputs, selectedInput,
                 selectedOutput, selectedMonitor, cbMonitor, params, nOps,
                 graphVars, outVars, monVars, inVars, permLive, applied>>

\* audioEngine.resume() completed.
StartResumed(r) ==
  /\ start[r].pc = "resume"
  /\ resume
  /\ start' = [start EXCEPT ![r].pc = "resumed", ![r].steps = Append(@, "resume")]
  /\ UNCHANGED <<platformVars, tones, meterVars, called, engineStarted, errorMsg, inputs, outputs, selectedInput,
                 selectedOutput, selectedMonitor, cbMonitor, params, nOps,
                 isInitialized, ctl, edges, outVars, monVars, inVars, permLive, applied>>

\* setEngineStarted(true), and the effects of the render it causes.
StartFinish(r) ==
  /\ start[r].pc = "resumed"
  /\ engineStarted' = TRUE
  /\ start' = [start EXCEPT ![r].pc = "done", ![r].steps = Append(@, "started")]
  /\ Effects(engineStarted, TRUE, selectedInput, selectedOutput, selectedMonitor,
             params.monitoringEnabled)
  /\ UNCHANGED <<platformVars, tones, meterVars, called, errorMsg, inputs, outputs, selectedInput,
                 selectedOutput, selectedMonitor, cbMonitor, params, nOps,
                 isInitialized, context, monitorContext, ctl, permLive, applied>>

\* ------------------------------------------------- App: the console
\* A user action on the rendered console, within the budget of the model.
CanAct == engineStarted /\ nOps < MaxOps

\* setParams(newParams) with audioEngine.updateParameters(newParams) and, when
\* monitoringEnabled changed, the effect that forwards it.
SetParams(newParams) ==
  /\ params' = newParams
  /\ updateParameters(newParams)
  /\ Effects(engineStarted, engineStarted, selectedInput, selectedOutput,
             selectedMonitor, newParams.monitoringEnabled)
  /\ nOps' = nOps + 1
  /\ UNCHANGED <<platformVars, tones, meterVars, called, engineStarted, errorMsg, inputs, outputs, selectedInput,
                 selectedOutput, selectedMonitor, cbMonitor, start,
                 isInitialized, context, monitorContext, permLive>>

\* updateParam(key, val)
updateParam(key, val) == SetParams([params EXCEPT ![key] = val])

\* A knob delivers a value of its range.
KnobChange ==
  /\ CanAct
  /\ \E key \in KnobKeys : \E i \in 1..2 :
       /\ KnobRange[key][i] # params[key]
       /\ updateParam(key, KnobRange[key][i])

toggleMute ==
  /\ CanAct
  /\ updateParam("isMuted", ~params.isMuted)

\* The monitoring switch.
ToggleMonitoring ==
  /\ CanAct
  /\ updateParam("monitoringEnabled", ~params.monitoringEnabled)

resetSettings ==
  /\ CanAct
  /\ params # DEFAULT_PARAMS
  /\ SetParams(DEFAULT_PARAMS)

\* The three device selects; a select lists the enumerated devices, and the
\* monitor select is rendered only while monitoring is enabled.
InSeq(s, x) == \E i \in 1..Len(s) : s[i] = x

Select(newIn, newOut, newMon) ==
  /\ CanAct
  /\ selectedInput' = newIn
  /\ selectedOutput' = newOut
  /\ selectedMonitor' = newMon
  /\ cbMonitor' = IF newIn # selectedInput \/ newOut # selectedOutput
                    THEN newMon ELSE cbMonitor
  /\ Effects(engineStarted, engineStarted, newIn, newOut, newMon,
             params.monitoringEnabled)
  /\ nOps' = nOps + 1
  /\ UNCHANGED <<platformVars, tones, meterVars, called, engineStarted, errorMsg, inputs, outputs, params, start,
                 isInitialized, context, monitorContext, ctl, permLive, applied>>

SelectInput ==
  \E d \in {x \in {InputIds[1], InputIds[2]} : InSeq(inputs, x) /\ x # selectedInput} :
     Select(d, selectedOutput, selectedMonitor)

SelectOutput ==
  \E d \in {x \in {OutputIds[1], OutputIds[2]} : InSeq(outputs, x) /\ x # selectedOutput} :
     Select(selectedInput, d, selectedMonitor)

SelectMonitor ==
  /\ params.monitoringEnabled
  /\ \E d \in {x \in {OutputIds[1], OutputIds[2]} : InSeq(outputs, x) /\ x # selectedMonitor} :
       Select(selectedInput, selectedOutput, d)

\* --------------------------------------- completions of setInputDevice
InputGranted ==
  \E i \in 1..Len(inCalls) :
     /\ inCalls[i].pc = "gum"
     /\ setInputDeviceGranted(i)
     /\ UNCHANGED <<platformVars, tones, meterVars, called, appVars, graphVars, outVars, monVars, permLive, applied>>

\* getUserMedia rejected: the error is rethrown and App records it.
InputRejected ==
  \E i \in 1..Len(inCalls) :
     /\ inCalls[i].pc = "gum"
     /\ inCalls' = RemoveAt(inCalls, i)
     /\ errorMsg' = "input"
     /\ UNCHANGED <<platformVars, tones, meterVars, called, engineStarted, inputs, outputs, selectedInput,
                    selectedOutput, selectedMonitor, cbMonitor, params, start, nOps,
                    graphVars, outVars, monVars, inputStream, sourceNode, live,
                    connected, nIn, permLive, applied>>

\* The resume() awaited at the end of setInputDevice completed.
InputResumed ==
  \E i \in 1..Len(inCalls) :
     /\ inCalls[i].pc = "resume"
     /\ inCalls' = RemoveAt(inCalls, i)
     /\ resume
     /\ UNCHANGED <<platformVars, tones, meterVars, called, appVars, isInitialized, ctl, edges, outVars, monVars,
                    inputStream, sourceNode, live, connected, nIn, permLive, applied>>

\* -------------------------------------- completions of setOutputDevice
OutputRetargeted ==
  \E i \in 1..Len(outCalls) :
     /\ outCalls[i].pc = "ctxSink"
     /\ setOutputDeviceRetargeted(i)
     /\ UNCHANGED <<platformVars, tones, meterVars, called, appVars, isInitialized, context, monitorContext, ctl,
                    monVars, inVars, permLive, applied>>

\* A setSinkId of setOutputDevice rejected: the catch block logs the error.
OutputSinkRejected ==
  \E i \in 1..Len(outCalls) :
     /\ outCalls[i].pc \in {"ctxSink", "elemSink"}
     /\ outCalls' = [outCalls EXCEPT ![i].pc = "caught"]
     /\ UNCHANGED <<platformVars, tones, meterVars, called, appVars, graphVars, outputMuted, outputSinkId,
                    contextSinkId, monVars, inVars, permLive, applied>>

\* setOutputDevice returns after its catch block.
OutputReturned ==
  \E i \in 1..Len(outCalls) :
     /\ outCalls[i].pc = "caught"
     /\ outCalls' = RemoveAt(outCalls, i)
     /\ UNCHANGED <<platformVars, tones, meterVars, called, appVars, graphVars, outputMuted, outputSinkId,
                    contextSinkId, monVars, inVars, permLive, applied>>

\* outputAudioElement.setSinkId(id) resolved; resume() is awaited.
OutputLegacySet ==
  \E i \in 1..Len(outCalls) :
     /\ outCalls[i].pc = "elemSink"
     /\ outputSinkId' = outCalls[i].id
     /\ outCalls' = [outCalls EXCEPT ![i].pc = "resume"]
     /\ UNCHANGED <<platformVars, tones, meterVars, called, appVars, graphVars, outputMuted, contextSinkId,
                    monVars, inVars, permLive, applied>>

OutputResumed ==
  \E i \in 1..Len(outCalls) :
     /\ outCalls[i].pc = "resume"
     /\ outCalls' = RemoveAt(outCalls, i)
     /\ resume
     /\ UNCHANGED <<platformVars, tones, meterVars, called, appVars, isInitialized, ctl, edges, outputMuted,
                    outputSinkId, contextSinkId, monVars, inVars, permLive, applied>>

\* ---------------------------------- completions of setMonitoringDevice
\* The monitor retarget landing on the main context as well.
MonitorRetargetedOnMainContext ==
  \E i \in 1..Len(monCalls) :
     /\ monCalls[i].pc = "ctxSink"
     /\ monitor' = setMonitoringDeviceRetargeted(monitor, monCalls[i].id)
     /\ monCalls' = RemoveAt(monCalls, i)
     /\ contextSinkId' = monCalls[i].id
     /\ UNCHANGED <<platformVars, tones, meterVars, called, appVars, graphVars, outputMuted, outputSinkId,
                    outCalls, inVars, permLive, applied>>

\* monitorContext.setSinkId(id) resolved for a pending call.
MonitorRetargeted ==
  \E i \in 1..Len(monCalls) :
     /\ monCalls[i].pc = "ctxSink"
     /\ monitor' = setMonitoringDeviceRetargeted(monitor, monCalls[i].id)
     /\ monCalls' = RemoveAt(monCalls, i)
     /\ UNCHANGED <<platformVars, tones, meterVars, called, appVars, graphVars, outVars, inVars, permLive, applied>>

MonitorLegacySet ==
  \E i \in 1..Len(monCalls) :
     /\ monCalls[i].pc = "elemSink"
     /\ monitor' = setMonitoringDeviceLegacySet(monitor, monCalls[i].id)
     /\ monCalls' = RemoveAt(monCalls, i)
     /\ UNCHANGED <<platformVars, tones, meterVars, called, appVars, graphVars, outVars, inVars, permLive, applied>>

\* A setSinkId of setMonitoringDevice rejected: the catch block logs the
\* error; the re-application of the monitoring state is skipped.
MonitorSinkRejected ==
  \E i \in 1..Len(monCalls) :
     /\ monCalls[i].pc \in {"ctxSink", "elemSink"}
     /\ monCalls' = [monCalls EXCEPT ![i].pc = "caught"]
     /\ UNCHANGED <<platformVars, tones, meterVars, called, appVars, graphVars, outVars, monitor, inVars,
                    permLive, applied>>

\* setMonitoringDevice returns after its catch block.
MonitorReturned ==
  \E i \in 1..Len(monCalls) :
     /\ monCalls[i].pc = "caught"
     /\ monCalls' = RemoveAt(monCalls, i)
     /\ UNCHANGED <<platformVars, tones, meterVars, called, appVars, graphVars, outVars, monitor, inVars,
                    permLive, applied>>

\* ------------------------------------------------- the audio timeline
\* The value jumping to the target in one step.
TowardAtOnce(v, t) == t

\* setTargetAtTime: the value approaches the target; one step of the model
\* covers half of the remaining distance (at least one tenth).
Toward(v, t) ==
  IF v < t THEN v + ((t - v + 1) \div 2)
  ELSE IF v > t THEN v - ((v - t + 1) \div 2)
  ELSE v

Glide ==
  /\ context = "running"
  /\ \/ \E c \in Controls : ctl[c].value # ctl[c].target
     \/ monitor.gain.value # monitor.gain.target
  /\ ctl' = [c \in Controls |-> [ctl[c] EXCEPT !.value = Toward(@, ctl[c].target)]]
  /\ monitor' = [monitor EXCEPT !.gain.value = Toward(@, monitor.gain.target)]
  /\ UNCHANGED <<platformVars, tones, meterVars, called, appVars, isInitialized, context, monitorContext, edges,
                 outVars, monCalls, inVars, permLive, applied>>

\* ------------------------------------------------------- the test tone
\* The two nodes the k-th playTestTone call creates.
ToneOsc(k) == "testOsc" \o ToString(k)
ToneGain(k) == "testGain" \o ToString(k)

\* playTestTone(): nothing without a context and a master gain (init()
\* creates the one right after the other); otherwise an oscillator through a
\* gain of its own into masterGain, started at once and scheduled to stop one
\* second later.
playTestTone ==
  IF context = "none"
    THEN UNCHANGED <<tones, edges>>
    ELSE LET k == Len(tones) + 1 IN
         /\ tones' = Append(tones, "playing")
         /\ edges' = edges \cup {<<ToneOsc(k), ToneGain(k)>>, <<ToneGain(k), "masterGain">>}

\* The Test Signal button.
playTestSignal ==
  /\ CanAct
  /\ playTestTone
  /\ nOps' = nOps + 1
  /\ UNCHANGED <<platformVars, meterVars, called, engineStarted, errorMsg, inputs, outputs,
                 selectedInput, selectedOutput, selectedMonitor, cbMonitor, params, start,
                 isInitialized, context, monitorContext, ctl, outVars, monVars, inVars,
                 permLive, applied>>

\* The stop time of an oscillator is reached on the running context.  The
\* code registers no onended handler and calls no disconnect: the connections
\* stay as they are.
ToneEnded ==
  /\ context = "running"
  /\ \E k \in 1..Len(tones) :
       /\ tones[k] = "playing"
       /\ tones' = [tones EXCEPT ![k] = "ended"]
  /\ UNCHANGED <<platformVars, meterVars, called, appVars, graphVars, outVars, monVars, inVars,
                 permLive, applied>>

\* The platform frees a finished oscillator and the gain only it feeds, which
\* the code holds in local variables alone; when it does so is up to the
\* platform.
ToneReleased ==
  /\ \E k \in 1..Len(tones) :
       /\ tones[k] = "ended"
       /\ tones' = [tones EXCEPT ![k] = "released"]
       /\ edges' = edges \ {<<ToneOsc(k), ToneGain(k)>>, <<ToneGain(k), "masterGain">>}
  /\ UNCHANGED <<platformVars, meterVars, called, appVars, isInitialized, context, monitorContext,
                 ctl, outVars, monVars, inVars, permLive, applied>>

\* ------------------------------------------------------ the level meters
RECURSIVE SumFirst(_, _)
\* arr.reduce((a, b) => a + b, 0) over the first n bins.
SumFirst(arr, n) == IF n = 0 THEN 0 ELSE SumFirst(arr, n - 1) + arr[n]

\* getAvg(arr) / 128 as the fraction it is: (sum / length) / 128.
Level(arr) == [num |-> SumFirst(arr, BinCount), den |-> BinCount * 128]

\* getLevels(): zeros without the analysers, which init() creates right after
\* the context; otherwise the scaled mean of each analyser's bins.
getLevels ==
  IF context = "none"
    THEN [input |-> [num |-> 0, den |-> 1], output |-> [num |-> 0, den |-> 1]]
    ELSE [input |-> Level(bins.input), output |-> Level(bins.output)]

\* The analysers take in another block of audio: any bin content.
AnalyserFrame ==
  /\ context = "running"
  /\ \E i \in BinContents : \E o \in BinContents :
       bins' = [input |-> i, output |-> o]
  /\ UNCHANGED <<platformVars, tones, called, levels, appVars, graphVars, outVars, monVars,
                 inVars, permLive, applied>>

\* The 50 ms interval App starts once engineStarted: setLevels(getLevels()).
SampleLevels ==
  /\ engineStarted
  /\ levels' = getLevels
  /\ UNCHANGED <<platformVars, tones, called, bins, appVars, graphVars, outVars, monVars,
                 inVars, permLive, applied>>

\* ------------------------------------------- the engine called directly
\* AudioEngine is an exported class with public methods: a caller other than
\* App's handlers can call them in any order, before init() too.
CanCall == nOps < MaxCalls

\* The snapshots a direct caller passes to updateParameters.
CallSnapshots ==
  {DEFAULT_PARAMS,
   [DEFAULT_PARAMS EXCEPT !.reverbDecay = 50, !.monitoringEnabled = TRUE],
   [DEFAULT_PARAMS EXCEPT !.inputGain = 20, !.isMuted = TRUE]}

\* What a direct call leaves as it is in the App.
Called(op) ==
  /\ CanCall
  /\ nOps' = nOps + 1
  /\ called' = op
  /\ UNCHANGED <<platformVars, tones, meterVars, engineStarted, errorMsg, inputs, outputs,
                 selectedInput, selectedOutput, selectedMonitor, cbMonitor, params, start,
                 inVars, permLive>>

CallInit ==
  /\ Called("init")
  /\ \E outcome \in (IF isInitialized THEN {"ok"} ELSE InitOutcomes) : init(outcome)
  /\ UNCHANGED <<outputSinkId, contextSinkId, outCalls, monCalls, applied>>

CallUpdateParameters ==
  /\ Called("updateParameters")
  /\ \E P \in CallSnapshots : updateParameters(P)
  /\ UNCHANGED <<isInitialized, context, monitorContext, edges, outVars, monVars>>

CallResume ==
  /\ Called("resume")
  /\ resume
  /\ UNCHANGED <<isInitialized, ctl, edges, outVars, monVars, applied>>

CallSetOutputDevice ==
  /\ Called("setOutputDevice")
  /\ Len(outCalls) < MaxInFlight
  /\ setOutputDevice(OutputIds[1])
  /\ UNCHANGED <<isInitialized, context, monitorContext, ctl, monVars, applied>>

CallSetMonitoringDevice ==
  /\ Called("setMonitoringDevice")
  /\ Len(monCalls) < MaxInFlight
  /\ LET r == setMonitoringDevice(monitor, monCalls, OutputIds[1]) IN
       /\ monitor' = r.m
       /\ monCalls' = r.calls
  /\ UNCHANGED <<graphVars, outVars, applied>>

CallSetMonitoringEnabled ==
  /\ Called("setMonitoringEnabled")
  /\ \E enabled \in BOOLEAN :
       monitor' = setMonitoringEnabled(monitor, enabled, monitorContext # "none")
  /\ UNCHANGED <<graphVars, outVars, monCalls, applied>>

EngineCall ==
  \/ CallInit \/ CallUpdateParameters \/ CallResume
  \/ CallSetOutputDevice \/ CallSetMonitoringDevice \/ CallSetMonitoringEnabled

\* The asynchronous completions of the calls above.
EngineCompletion ==
  \/ OutputRetargeted \/ OutputLegacySet \/ OutputResumed
  \/ OutputSinkRejected \/ OutputReturned
  \/ MonitorRetargeted \/ MonitorLegacySet
  \/ MonitorSinkRejected \/ MonitorReturned

\* --------------------------------------------------- specifications
StartStepOf(R) ==
  \E r \in R :
     \/ ClickStart(r)
     \/ PermissionGranted(r)
     \/ PermissionDenied(r)
     \/ InitThrew(r)
     \/ StartApply(r)
     \/ DevicesEnumerated(r)
     \/ EnumerationFailed(r)
     \/ StartResumed(r)
     \/ StartFinish(r)

StartStep == StartStepOf(Runs)

\* The start sequence of the first click alone.
FirstStart == StartStepOf({1})

ParamStep == KnobChange \/ toggleMute \/ resetSettings

InputStep == SelectInput \/ InputGranted \/ InputRejected \/ InputResumed

OutputStep ==
  \/ SelectOutput \/ OutputRetargeted \/ OutputLegacySet \/ OutputResumed
  \/ OutputSinkRejected \/ OutputReturned

MonitorStep ==
  \/ ToggleMonitoring \/ SelectMonitor
  \/ MonitorRetargeted \/ MonitorLegacySet
  \/ MonitorSinkRejected \/ MonitorReturned

Next == StartStep \/ ParamStep \/ InputStep \/ OutputStep \/ MonitorStep

Spec == Init /\ [][Next]_vars

\* The start sequence (overlapping and repeated clicks) with the audio
\* timeline, on a platform with both sink-selection mechanisms.
InitStart ==
  /\ Init
  /\ ctxSinkSupported /\ elemSinkSupported
  /\ selectedMonitor = selectedOutput
NextStart == StartStep \/ Glide
SpecStart == InitStart /\ [][NextStart]_vars

\* One start and the parameter controls; no device selection restored.
InitParams ==
  /\ Init
  /\ ctxSinkSupported /\ elemSinkSupported
  /\ selectedInput = "" /\ selectedOutput = "" /\ selectedMonitor = ""
NextParams == FirstStart \/ ParamStep
SpecParams == InitParams /\ [][NextParams]_vars

\* One start, the parameter controls and the audio timeline, which advances
\* for as long as the context runs (the render thread is never starved).
InitGlide ==
  /\ InitParams
  /\ params = DEFAULT_PARAMS
\* The knobs turned in this specification.
GlideKnobs == {"inputGain", "delayFeedback"}
GlideKnobChange ==
  /\ CanAct
  /\ \E key \in GlideKnobs : \E i \in 1..2 :
       /\ KnobRange[key][i] # params[key]
       /\ updateParam(key, KnobRange[key][i])
NextGlide == FirstStart \/ GlideKnobChange \/ toggleMute \/ Glide
SpecGlide == InitGlide /\ [][NextGlide]_vars /\ WF_vars(Glide)

\* The parameter controls with overlapping and repeated clicks on the start
\* button.
NextRestart == StartStep \/ ParamStep
SpecRestart == InitParams /\ [][NextRestart]_vars

\* One start and the input selection.
InitInput ==
  /\ Init
  /\ ctxSinkSupported /\ elemSinkSupported
  /\ params = DEFAULT_PARAMS
  /\ selectedOutput = "" /\ selectedMonitor = ""
NextInput == FirstStart \/ InputStep
SpecInput == InitInput /\ [][NextInput]_vars

\* The input selection with overlapping and repeated clicks on the start
\* button.
NextReinput == StartStep \/ InputStep
SpecReinput == InitInput /\ [][NextReinput]_vars

\* One start with the restored input selection naming a device that may be
\* unplugged when the devices are enumerated.
InitStale ==
  /\ InitInput
  /\ selectedInput = InputIds[2]
NextStale == FirstStart \/ DevicesEnumeratedUnplugged(1) \/ InputStep
SpecStale == InitStale /\ [][NextStale]_vars

\* One start and the Test Signal button, with the audio clock and the
\* platform's reclamation of finished nodes.
InitTone ==
  /\ InitParams
  /\ params = DEFAULT_PARAMS
ToneStep == playTestSignal \/ ToneEnded \/ ToneReleased
NextTone == FirstStart \/ ToneStep
SpecTone == InitTone /\ [][NextTone]_vars

\* The engine driven through its public methods, without the App.
InitEngine ==
  /\ Init
  /\ params = DEFAULT_PARAMS
  /\ selectedInput = "" /\ selectedOutput = "" /\ selectedMonitor = ""
NextEngine == EngineCall \/ EngineCompletion \/ Glide
SpecEngine == InitEngine /\ [][NextEngine]_vars

\* One start and the level meters.
NextMeter == FirstStart \/ AnalyserFrame \/ SampleLevels
SpecMeter == InitTone /\ [][NextMeter]_vars

\* One start and the routing of the main and the monitor output.
InitRouting ==
  /\ Init
  /\ selectedInput = ""
  /\ params \in {DEFAULT_PARAMS, [DEFAULT_PARAMS EXCEPT !.monitoringEnabled = TRUE, !.reverbMix = 10]}
NextRouting == FirstStart \/ OutputStep \/ MonitorStep
SpecRouting == InitRouting /\ [][NextRouting]_vars

\* ================================================================ claims

\* ------------------------------------------------------------------ C1
\* The steps of handleStartEngine in the order of its code.
StartOrder == <<"perm", "init", "params", "refresh", "resume", "started">>

IsPrefix(p, q) == Len(p) <= Len(q) /\ SubSeq(q, 1, Len(p)) = p

HasStep(r, x) == InSeq(start[r].steps, x)

TargetsAre(P) == \A c \in Controls : ctl[c].target = Targets(P)[c]

\* C1: every run of handleStartEngine takes its steps in the order permission
\* granted, init(), updateParameters, (refreshDevices,) resume(), engineStarted:
\* a run that reached resume() has a built graph whose targets are those of its
\* parameter snapshot, a run is past resume() only with both contexts running,
\* a run whose permission request or init() failed took no later step, and
\* engineStarted is set only by a run that took them all.
C1_StartSequenceOrdered ==
  /\ \A r \in Runs :
       /\ IsPrefix(start[r].steps, StartOrder)
       /\ start[r].steps # <<>> => r \in permLive
       /\ HasStep(r, "init") => isInitialized
       /\ start[r].pc \in {"resume", "resumed", "done"} =>
            /\ HasStep(r, "params")
            /\ isInitialized
            /\ applied # <<>>
            /\ TargetsAre(start[r].params)
       /\ HasStep(r, "resume") => context = "running" /\ monitorContext = "running"
       /\ start[r].pc = "denied" => start[r].steps = <<>>
       /\ start[r].pc \in {"initThrew", "failed"} => start[r].steps = <<"perm">>
  /\ engineStarted => \E r \in Runs : start[r].steps = StartOrder
  /\ (\A r \in Runs : ~HasStep(r, "resume")) => context # "running"

\* C1 witness: the engine started after a first run failed in init().
C1_Witness ==
  /\ engineStarted
  /\ start[1].pc = "failed"
  /\ start[2].steps = StartOrder

\* ------------------------------------------------------------------ C2
\* The gain-bearing stages of the main graph.
GainStages == Controls \ {"delayTime"}

\* C2: from init() until the first updateParameters call every gain-bearing
\* stage (input, master, reverb wet, delay wet, delay feedback, monitor) has
\* gain 0.
C2_GainsZeroUntilApplied ==
  (isInitialized /\ applied = <<>>) =>
     /\ \A c \in GainStages : ctl[c].value = 0
     /\ monitor.gain.value = 0

\* ------------------------------------------------------------------ C3
\* C3: at most one capture stream obtained by setInputDevice is live, and a
\* live one is the engine's current inputStream.
C3_OneLiveInputStream ==
  /\ Cardinality(live) <= 1
  /\ \A k \in live : k = inputStream

\* ------------------------------------------------------------------ C4
MasterTarget == ctl["masterGain"].target

MonitorViaContext ==
  IF variant = "part001" THEN monitor.isMonitoringViaContext ELSE ctxSinkSupported

\* A step in which the monitoringEnabled effect calls setMonitoringEnabled.
EnabledApplied ==
  engineStarted' /\ (~engineStarted \/ params'.monitoringEnabled # params.monitoringEnabled)

\* C5: after setMonitoringEnabled(enabled) the legacy monitor element is
\* unmuted iff enabled and the legacy mechanism is active, and the monitor gain
\* target is 1 iff enabled and the direct mechanism is active.
C5_EnabledPerMechanism ==
  [][EnabledApplied =>
       /\ (~monitor'.muted) <=> (params'.monitoringEnabled /\ ~MonitorViaContext')
       /\ (monitor'.gain.target = 10) <=> (params'.monitoringEnabled /\ MonitorViaContext')]_vars

\* ------------------------------------------------------------------ C6
MonitorDirectAudible == monitorContext # "none" /\ monitor.gain.target > 0
MonitorLegacyAudible == isInitialized /\ ~monitor.muted

\* C6: once no setMonitoringDevice call is in flight, the monitor is audible
\* iff the last value given to setMonitoringEnabled is true, and only through
\* the mechanism recorded as active.
C6_MonitorFollowsFlag ==
  (engineStarted /\ monCalls = <<>>) =>
     /\ (MonitorDirectAudible \/ MonitorLegacyAudible) <=> params.monitoringEnabled
     /\ MonitorDirectAudible => MonitorViaContext
     /\ MonitorLegacyAudible => ~MonitorViaContext

\* ------------------------------------------------------------------ C7
PendingCalls == {outCalls[i] : i \in 1..Len(outCalls)} \cup {monCalls[i] : i \in 1..Len(monCalls)}

RECURSIVE ReachSet(_, _)
\* The nodes reachable from the set S along E.
ReachSet(E, S) ==
  LET T == S \cup {e[2] : e \in {x \in E : x[1] \in S}}
  IN IF T = S THEN S ELSE ReachSet(E, T)

\* The graph's direct edge reaches the hardware destination of the context.
DirectPathLive == "destination" \in ReachSet(edges, {"outputAnalyzer"})

DirectCaught(i) == outCalls[i].pc = "caught" /\ outCalls[i].mech = "direct"

\* C8 as stated: after a rejected context retarget for id the router has fallen
\* back (direct edge disconnected, legacy element unmuted, its sink set to id).
C8_FallsBackOnRejection ==
  \A i \in 1..Len(outCalls) :
     DirectCaught(i) =>
        /\ ~DirectPathLive
        /\ ~outputMuted
        /\ outputSinkId = outCalls[i].id

\* ------------------------------------------------------------------ C9
\* C9: after init() the main output is never audible through both paths: the
\* direct edge reaching the destination while the legacy element is unmuted.
C9_NeverBothMainPaths ==
  isInitialized => ~(DirectPathLive /\ ~outputMuted)

\* ----------------------------------------------------------------- C10
\* C10: after init(), with no setOutputDevice call in flight, the main output
\* has an audible path: the direct edge or the unmuted legacy element.
C10_MainOutputAudible ==
  (isInitialized /\ outCalls = <<>>) => (DirectPathLive \/ ~outputMuted)

\* ----------------------------------------------------------------- C11
\* What the main output consists of: the edges of the graph, the targets of
\* its six controls, the main context's sink, and the legacy output element's
\* muted flag and sink.
MainOutputState ==
  <<edges, [c \in Controls |-> ctl[c].target], contextSinkId, outputMuted, outputSinkId>>

\* A step of the monitor role alone: the monitoring switch, a monitor device
\* selection, or the completion of a pending setMonitoringDevice call.
MonitorOnlyStep ==
  \/ MonitorStep
  \/ (monitor' # monitor /\ UNCHANGED <<appVars, outCalls, ctl>>)

\* C11: setMonitoringDevice and setMonitoringEnabled, and the completion of a
\* pending setMonitoringDevice call, leave the main output as it was: edges,
\* control targets, main context sink, legacy output element's muted flag and
\* sink.
C11_MonitorLeavesMainOutput ==
  [][MonitorOnlyStep => MainOutputState' = MainOutputState]_vars

\* C11 witness: monitoring is enabled and the monitor context was retargeted
\* to a device of its own while the main output sits where it was put.
C11_Witness ==
  /\ engineStarted
  /\ params.monitoringEnabled
  /\ monitor.ctxSinkId # ""
  /\ monitor.ctxSinkId # contextSinkId
  /\ nOps > 0
  /\ monCalls = <<>>

\* ----------------------------------------------------------------- C12
\* No handleStartEngine run is between its click and its end.
NoStartRunning == \A r \in Runs : start[r].pc \in {"idle", "denied", "failed", "done"}

\* C12: with the engine started and no handler mid-execution, the six control
\* targets of the graph are those derived from the current snapshot of params.
C12_StoreAndGraphAgree ==
  (engineStarted /\ NoStartRunning) => TargetsAre(params)

\* ----------------------------------------------------------------- C13
\* Snapshots the console can hold: every knob at an end of its range, muted or
\* not.
ValidParams ==
  {[DEFAULT_PARAMS EXCEPT !.inputGain = g, !.masterGain = m, !.reverbMix = rv,
                          !.delayTime = dt, !.delayFeedback = fb, !.delayMix = dm,
                          !.isMuted = mu] :
     g \in {0, 20}, m \in {0, 20}, rv \in {0, 10}, dt \in {0, 10},
     fb \in {0, 9}, dm \in {0, 10}, mu \in BOOLEAN}

ControlTargets == [c \in Controls |-> ctl[c].target]

\* C13: in every initialized state and for every valid snapshot P, applying P
\* twice leaves the controls as applying it once does; and a second
\* updateParameters call of the start sequence with the snapshot already
\* applied leaves every target where it is.
C13_UpdateIdempotent ==
  /\ [](isInitialized =>
          \A P \in ValidParams :
             WithTargets(WithTargets(ctl, P), P) = WithTargets(ctl, P))
  /\ [][\A r \in Runs :
          (StartApply(r) /\ applied = <<start[r].params>>)
             => ControlTargets' = ControlTargets]_vars

\* C13 witness: two start runs have each applied the snapshot to the built
\* graph, and the controls were gliding in between.
C13_Witness ==
  /\ isInitialized
  /\ HasStep(1, "params") /\ HasStep(2, "params")
  /\ applied = <<start[2].params>>
  /\ \E c \in Controls : ctl[c].value # 0

\* ----------------------------------------------------------------- C14
Dist(a, b) == IF a < b THEN b - a ELSE a - b

\* Every control value sits on its target.
Settled == \A c \in Controls : ctl[c].value = ctl[c].target

\* A control whose value changes in a step glides: its target is the one it
\* had, the value moves toward it without passing it, and it does not land
\* on a target that was more than one tenth away.
GlidesOnly ==
  \A c \in Controls :
     ctl'[c].value # ctl[c].value =>
        /\ ctl'[c].target = ctl[c].target
        /\ Dist(ctl'[c].value, ctl[c].target) < Dist(ctl[c].value, ctl[c].target)
        /\ Dist(ctl'[c].value, ctl[c].value) <= Dist(ctl[c].value, ctl[c].target)
        /\ Dist(ctl[c].value, ctl[c].target) > 1 => ctl'[c].value # ctl[c].target

\* C14: the targets are those of the last snapshot given to updateParameters;
\* control values change only by gliding toward the current target; and on a
\* running context, the calls being finitely many, the values settle on the
\* targets of the last snapshot.
C14_LastWriterWinsAndConverges ==
  /\ [](applied # <<>> => TargetsAre(applied[1]))
  /\ [][GlidesOnly]_vars
  /\ (context = "running") ~> [](Settled /\ applied # <<>> /\ TargetsAre(applied[1]))

\* C14 witness: after two knob actions on the same control the values have
\* settled on the targets of the last one.
C14_Witness ==
  /\ context = "running"
  /\ nOps >= 2
  /\ params.inputGain = 20
  /\ ctl["inputGain"].value = 20
  /\ Settled

\* ----------------------------------------------------------------- C15
\* C15: the target updateParameters sets on the delay feedback gain is
\* strictly below 1 for every snapshot that reaches the graph.
C15_FeedbackBelowOne ==
  applied # <<>> => ctl["delayFeedback"].target < 10

\* ----------------------------------------------------------------- C16
\* A step in which run r's refreshDevices stores the enumerated lists.
Refreshes(r) == start[r].pc = "enum" /\ start'[r].pc = "resume" /\ HasStep(r, "refresh")'

\* Some refreshDevices call has stored its lists before.
RefreshedBefore == \E r \in Runs : HasStep(r, "refresh")

\* C16: a refreshDevices that enumerates no output device goes on without an
\* error recorded and leaves the main-output and monitor selections as they
\* are (unset stays unset); a later refreshDevices that enumerates an output
\* device sets each of the two selections that is unset to the first one.
C16_ZeroOutputsThenAutoSelect ==
  [][\A r \in Runs :
       Refreshes(r) =>
          /\ errorMsg' = errorMsg
          /\ outputs' = <<>> =>
               /\ selectedOutput' = selectedOutput
               /\ selectedMonitor' = selectedMonitor
          /\ (RefreshedBefore /\ outputs = <<>> /\ outputs' # <<>>) =>
               /\ selectedOutput = "" => selectedOutput' = outputs'[1]
               /\ selectedMonitor = "" => selectedMonitor' = outputs'[1]]_vars

\* C16 witness: two refreshDevices calls have run, nothing was restored for
\* the two output roles, and both now hold the first output device.
C16_Witness ==
  /\ HasStep(1, "refresh") /\ HasStep(2, "refresh")
  /\ start[1].selOut = "" /\ start[1].selMon = ""
  /\ start[2].selOut = "" /\ start[2].selMon = ""
  /\ selectedOutput = OutputIds[1]
  /\ selectedMonitor = OutputIds[1]
  /\ errorMsg = "null"

\* ----------------------------------------------------------------- C17
\* What a refresh owes one role: a selection that is set stays, one that is
\* unset takes the first entry of a non-empty list.
AutoSelected(sel, selAfter, list) ==
  /\ sel # "" => selAfter = sel
  /\ (sel = "" /\ list # <<>>) => selAfter = list[1]

\* C17: refreshDevices sets the first enumerated entry for the roles whose
\* selection is empty when it runs and leaves every non-empty selection as
\* it is, for the input, the main output and the monitor.
C17_AutoSelectOnlyEmpty ==
  [][\A r \in Runs :
       Refreshes(r) =>
          /\ AutoSelected(selectedInput, selectedInput', inputs')
          /\ AutoSelected(selectedOutput, selectedOutput', outputs')
          /\ AutoSelected(selectedMonitor, selectedMonitor', outputs')]_vars

\* ----------------------------------------------------------------- C18
\* Nothing is in progress that could still change the input: no start run
\* and no setInputDevice call.
InputQuiescent == NoStartRunning /\ inCalls = <<>>

\* C18: with the engine started, an input device enumerated and nothing left
\* in progress, the input selection names an enumerated device and the engine
\* holds a live capture stream: a selection that was not enumerated has been
\* replaced and its device opened.
C18_StaleSelectionRecovered ==
  (engineStarted /\ InputQuiescent /\ inputs # <<>>) =>
     /\ InSeq(inputs, selectedInput)
     /\ inputStream \in live

\* ----------------------------------------------------------------- C19
\* C19: an engine that is not initialized, whether init() was never called or
\* failed on the way, holds no context and no wiring, as before the call.
C19_NoPartialGraph ==
  ~isInitialized =>
     /\ context = "none"
     /\ monitorContext = "none"
     /\ edges = {}

\* ----------------------------------------------------------------- C20
\* No run has got past its permission request.
NoneGranted == \A r \in Runs : start[r].pc \in {"idle", "perm", "denied"}

\* C20: a run whose permission request is declined ends with the error
\* recorded, having taken no step of the sequence: the step leaves
\* engineStarted and the engine as they were, and while no run was granted
\* the engine is uninitialized and not started.  (That a later granted run
\* starts the engine is the witness.)
C20_DeniedThenRetry ==
  /\ [](\A r \in Runs :
          start[r].pc = "denied" =>
             /\ errorMsg # "null"
             /\ start[r].steps = <<>>
             /\ r \notin permLive)
  /\ [](NoneGranted => ~engineStarted /\ ~isInitialized /\ context = "none")
  /\ [][\A r \in Runs :
          (start[r].pc = "perm" /\ start'[r].pc = "denied") =>
             /\ errorMsg' # "null"
             /\ UNCHANGED <<engineStarted, graphVars, outVars, monVars, inVars>>]_vars

\* C20 witness: the first run was declined, the second one granted, and the
\* engine is started.
C20_Witness ==
  /\ start[1].pc = "denied"
  /\ start[2].pc = "done"
  /\ engineStarted
  /\ isInitialized
  /\ errorMsg # "null"

\* ----------------------------------------------------------------- C21
\* Every field of the defaults is present in P.
Complete(P) == (DOMAIN DEFAULT_PARAMS) \subseteq (DOMAIN P)

\* P follows the stored object field by field: the stored value where the
\* object has the field, the default otherwise.
FieldByField(P, fields) ==
  \A k \in DOMAIN DEFAULT_PARAMS :
     P[k] = IF k \in DOMAIN fields THEN FromJson(fields[k]) ELSE DEFAULT_PARAMS[k]

FeedsMaster == {e[1] : e \in {d \in edges : d[2] = "masterGain"}}

\* The nodes init() connects to the master stage.
MasterInputs == {"inputGain", "reverbGain", "delayWetGain"}

\* C22: a playing test tone reaches the graph through its own gain into the
\* master stage and nowhere else, and once every tone played so far has run
\* its second, the nodes connected to the master stage are those connected
\* before the calls, however many calls were made.
C22_ToneLeavesNoNode ==
  isInitialized =>
    /\ \A k \in 1..Len(tones) : tones[k] = "playing" =>
         /\ <<ToneGain(k), "masterGain">> \in edges
         /\ \A e \in edges : e[1] = ToneGain(k) => e[2] = "masterGain"
         /\ \A e \in edges : e[1] = ToneOsc(k) => e[2] = ToneGain(k)
    /\ (\A k \in 1..Len(tones) : tones[k] # "playing") => FeedsMaster = MasterInputs
\* ----------------------------------------------------------------- C23
\* The live microphone captures of the application: the streams of the
\* permission requests and the streams setInputDevice obtained.
LiveCaptures == Cardinality(permLive) + Cardinality(live)

\* C23: at most one microphone capture is live at any time, the stream of the
\* start-up permission request counted with the engine's own.
C23_OneCaptureWithPermission == LiveCaptures <= 1
\* ----------------------------------------------------------------- C24
\* The two snapshots agree on every field but reverbDecay and monitoringEnabled.
SameButDecayAndMonitoring(P, Q) ==
  \A k \in (DOMAIN P) \ {"reverbDecay", "monitoringEnabled"} : P[k] = Q[k]

\* A step that is a direct call of updateParameters.
UpdateCall == nOps' = nOps + 1 /\ called' = "updateParameters"

\* C24: a call of updateParameters changes the six control targets and
\* nothing else (no edge, no routing or monitor state, no control value); the
\* targets it sets are the same whatever the snapshot's reverbDecay and
\* monitoringEnabled, so a snapshot that differs from the applied one in those
\* two fields only leaves every target where it is; and without a context the
\* call changes nothing.
C24_UpdateChangesTargetsOnly ==
  [][UpdateCall =>
       /\ UNCHANGED <<isInitialized, context, monitorContext, edges,
                      outVars, monVars, inVars, tones>>
       /\ \A c \in Controls : ctl'[c].value = ctl[c].value
       /\ context = "none" => UNCHANGED <<ctl, applied>>
       /\ context # "none" =>
            /\ applied' # <<>>
            /\ \A d \in {1, 20, 50} : \A m \in BOOLEAN :
                 ctl' = WithTargets(ctl, [applied'[1] EXCEPT !.reverbDecay = d,
                                                             !.monitoringEnabled = m])
            /\ (applied # <<>> /\ TargetsAre(applied[1])
                  /\ SameButDecayAndMonitoring(applied[1], applied'[1]))
                 => \A c \in Controls : ctl'[c].target = ctl[c].target]_vars

\* updateParameters was called with a snapshot that differs from the one
\* applied before in reverbDecay and monitoringEnabled only, on a graph whose
\* controls have left 0.
C24_Witness ==
  /\ called = "updateParameters"
  /\ applied # <<>>
  /\ applied[1] = [DEFAULT_PARAMS EXCEPT !.reverbDecay = 50, !.monitoringEnabled = TRUE]
  /\ TargetsAre(DEFAULT_PARAMS)
  /\ ctl["inputGain"].value > 0
\* ----------------------------------------------------------------- C25
\* The nodes n is connected to.
Successors(E, n) == {e[2] : e \in Outgoing(E, n)}

\* The nodes of E that lie on a cycle.
OnCycle(E) ==
  {n \in {e[1] : e \in E} : n \in ReachSet(E, Successors(E, n))}

\* E without the connections into and out of node n.
Without(E, n) == {e \in E : e[1] # n /\ e[2] # n}

\* The two sinks of the main graph: the hardware destination of the context
\* and the MediaStream destination.
Sinks == {"destination", "destinationNode"}

\* C25: once init() has built the graph, the input stage feeds the input
\* analyser, the dry path, the convolver and the delay line; the reverb and
\* delay branches end in the master gain; the only cycle is delay line ->
\* feedback gain -> delay line; no sink is reached from the input stage except
\* through the master gain and through the output analyser, in that order; and
\* both sinks are fed from the output analyser.
C25_TopologyAfterInit ==
  isInitialized =>
    /\ Successors(edges, "inputGain") = {"inputAnalyzer", "masterGain", "convolver", "delayNode"}
    /\ Successors(edges, "convolver") = {"reverbGain"}
    /\ Successors(edges, "reverbGain") = {"masterGain"}
    /\ Successors(edges, "delayNode") = {"delayFeedback", "delayWetGain"}
    /\ Successors(edges, "delayFeedback") = {"delayNode"}
    /\ Successors(edges, "delayWetGain") = {"masterGain"}
    /\ OnCycle(edges) = {"delayNode", "delayFeedback"}
    /\ Successors(edges, "masterGain") = {"outputAnalyzer"}
    /\ "masterGain" \notin ReachSet(edges, {"outputAnalyzer"})
    /\ \A k \in Sinks :
         /\ k \notin ReachSet(Without(edges, "masterGain"), {"inputGain"})
         /\ k \notin ReachSet(Without(edges, "outputAnalyzer"), {"inputGain"})
         /\ k \in ReachSet(edges, {"outputAnalyzer"})
\* ----------------------------------------------------------------- C26
\* A step in which init() is called: by a run of handleStartEngine whose
\* permission request resolved, or by a direct caller.
InitCalled ==
  \/ \E r \in Runs : start[r].pc = "perm" /\ start'[r].pc \in {"init", "initThrew"}
  \/ nOps' = nOps + 1 /\ called' = "init"

\* C26: an init() call on an engine that is already initialized returns
\* normally and leaves the engine as it is: contexts, connections, control
\* values and targets, routing, monitor and input state.
C26_InitOnlyOnce ==
  [][(isInitialized /\ InitCalled) =>
       /\ UNCHANGED <<graphVars, outVars, monVars, inVars, tones>>
       /\ \A r \in Runs : start[r].pc = "perm" => start'[r].pc # "initThrew"]_vars

\* The second start request has been through init() on a running graph whose
\* input gain has left 0.
C26_Witness ==
  /\ start[2].pc = "init"
  /\ start[1].pc \in {"resumed", "done"}
  /\ isInitialized
  /\ context = "running"
  /\ ctl["inputGain"].value > 0
\* ----------------------------------------------------------------- C27
\* C27: at most one microphone source node is connected to inputGain; and
\* when no setInputDevice call is in flight, a connected source node is the
\* one made by the latest call, the call for the device selected last.
C27_OneSourceConnected ==
  /\ Cardinality(connected) <= 1
  /\ inCalls = <<>> => connected \subseteq {nIn}
\* ----------------------------------------------------------------- C28
\* A step in which the capture request of a pending setInputDevice call fails.
CaptureFailed ==
  \E i \in 1..Len(inCalls) : inCalls[i].pc = "gum" /\ inCalls' = RemoveAt(inCalls, i)

\* A step in which the capture request of a pending call succeeds.
CaptureGranted ==
  \E i \in 1..Len(inCalls) :
     inCalls[i].pc = "gum" /\ inCalls' = [inCalls EXCEPT ![i].pc = "resume"]

\* C28: when the capture request of setInputDevice fails, App records the
\* rethrown error, no capture stream of the engine is live and no source node
\* feeds inputGain, and the graph's controls, the output routing and the
\* monitor state are as before; a later capture request that succeeds connects
\* exactly one new source node.
C28_FailedCaptureLeavesNoInput ==
  [][/\ CaptureFailed =>
          /\ errorMsg' = "input"
          /\ live' = {} /\ connected' = {}
          /\ UNCHANGED <<graphVars, outVars, monVars>>
     /\ CaptureGranted => Cardinality(connected' \ connected) = 1]_vars
\* ----------------------------------------------------------------- C29
\* A step that is a direct call of method op.
DirectCall(op) == nOps' = nOps + 1 /\ called' = op

\* C29: before init() has created a context, setOutputDevice and
\* setMonitoringDevice return at once and change no engine state, and
\* setMonitoringEnabled leaves the legacy monitor element muted; and no step
\* of a setMonitoringDevice call hands an error to the caller.
C29_RoutingBeforeInitIsNoOp ==
  [][/\ (context = "none" /\ (DirectCall("setOutputDevice") \/ DirectCall("setMonitoringDevice")))
          => UNCHANGED <<graphVars, outVars, monVars, inVars, tones>>
     /\ (context = "none" /\ DirectCall("setMonitoringEnabled"))
          => /\ monitor'.muted
             /\ UNCHANGED <<graphVars, outVars, monCalls, inVars, tones>>
     /\ monCalls' # monCalls => errorMsg' = errorMsg]_vars
\* ----------------------------------------------------------------- C30
\* The fraction lies within [0, 1].
Normalized(l) == 0 <= l.num /\ l.num <= l.den

\* C30: getLevels returns zeros while the analysers do not exist and the mean
\* of each analyser's bytes divided by 128 otherwise, and the levels it
\* returns, like those App has stored from it, lie within [0, 1] for every bin
\* content.
C30_LevelsNormalized ==
  /\ context = "none" => getLevels.input.num = 0 /\ getLevels.output.num = 0
  /\ context # "none" =>
       /\ getLevels.input.num * BinCount * 128 = SumFirst(bins.input, BinCount) * getLevels.input.den
       /\ getLevels.output.num * BinCount * 128 = SumFirst(bins.output, BinCount) * getLevels.output.den
  /\ Normalized(getLevels.input) /\ Normalized(getLevels.output)
  /\ Normalized(levels.input) /\ Normalized(levels.output)
====
